---- MODULE Spec2Model ----
(***************************************************************************)
(* Model of scripts/subset-fonts.py: the build-time font subsetting        *)
(* pipeline (scan_content, check_glyph_coverage, generate_subset, main).   *)
(*                                                                         *)
(* Characters are represented by their code points (ord).  A file name is  *)
(* the tuple of the string parts the f-string concatenates.  The external  *)
(* font engine (fontTools) is opaque: an artifact is recorded as the pair  *)
(* (source font file, character set) it was subset from, and every call    *)
(* into the engine may raise.                                              *)
(***************************************************************************)
EXTENDS Integers, Sequences, FiniteSets, TLC

\* ------------------------------------------------------------------ bounds

\* How many of the seven configured weights the model keeps (in WeightKeys order).
NumWeights == 2

\* How many successive runs of the script a behaviour holds.
MaxRuns == 2

\* ------------------------------------------------------- configuration data

FONT_DIR == "/opt/palimpsestus/fonts"

\* The keys of a "weights" dict, reference weight first, restricted by NumWeights.
WeightKeys == <<400, 700, 200, 300, 500, 600, 900>>

Weights == {WeightKeys[i] : i \in 1..NumWeights}

\* The "weights" dict of both ranges: weight -> source font file name.
WeightFiles ==
    [w \in Weights |->
        CASE w = 200 -> "NotoSerifCJKsc-ExtraLight.otf"
          [] w = 300 -> "NotoSerifCJKsc-Light.otf"
          [] w = 400 -> "NotoSerifCJKsc-Regular.otf"
          [] w = 500 -> "NotoSerifCJKsc-Medium.otf"
          [] w = 600 -> "NotoSerifCJKsc-SemiBold.otf"
          [] w = 700 -> "NotoSerifCJKsc-Bold.otf"
          [] w = 900 -> "NotoSerifCJKsc-Black.otf"]

\* The keys of RANGES in dict (insertion) order.
RangeNames == <<"CJKExtB-Serif", "CJKRare-Serif">>

RANGES ==
    [name \in {RangeNames[i] : i \in 1..Len(RangeNames)} |->
        IF name = "CJKExtB-Serif"
        THEN [start |-> 131072,  \* 0x20000
              end |-> 173791,    \* 0x2A6DF
              weights |-> WeightFiles,
              rare_only |-> FALSE]
        ELSE [start |-> 19968,   \* 0x4E00
              end |-> 40959,     \* 0x9FFF
              weights |-> WeightFiles,
              rare_only |-> TRUE]]

\* U+8FCC, U+570A, U+6E37
RARE_BASIC_CJK == {36812, 22282, 28215}

\* str(weight), as the f-string formats it.
WeightStr(w) ==
    CASE w = 200 -> "200" [] w = 300 -> "300" [] w = 400 -> "400"
      [] w = 500 -> "500" [] w = 600 -> "600" [] w = 700 -> "700"
      [] w = 900 -> "900"

\* f"{name}-{weight}.woff2" inside the output directory.
OutputName(name, weight) == <<name, "-", WeightStr(weight), ".woff2">>

\* os.path.join(FONT_DIR, font_file)
SourcePath(font_file) == <<FONT_DIR, "/", font_file>>

\* ------------------------------------------------------------- file system

\* A path holds the set of its contents: empty when no file is there, one
\* element (the file's content) when a file is.
Absent == {}

\* The content font.save leaves: the subset of `source` to the characters `cs`.
Artifact(source, cs) == [source |-> source, chars |-> cs]

\* os.path.exists(path) on the font directory: `fonts` is the set of paths present.
SourceExists(path, fontsPresent) == path \in fontsPresent

\* os.path.exists(path) on the output directory.
OutputExists(path, o) == o[path] # Absent

\* os.remove(path)
Remove(path, o) == [o EXCEPT ![path] = Absent]

\* font.save(output): the subset of `source` to `cs`, written over any prior file.
Save(path, source, cs, o) == [o EXCEPT ![path] = {Artifact(source, cs)}]

\* ------------------------------------------------------ check_glyph_coverage

\* Variant of Notdef: the sentinel taken to be the literal name, whatever the
\* glyph order says.
NotdefLiteral(font) == ".notdef"

\* A font as fontTools exposes it: cmap (getBestCmap, code point -> glyph
\* name, a partial map) and glyphOrder (getGlyphOrder).
Notdef(font) ==
    IF font.glyphOrder # <<>> THEN font.glyphOrder[1] ELSE ".notdef"

\* Variant of CoverageLoop: the else of line 102 adds nothing to `missing`.
RECURSIVE CoverageLoopNoElse(_, _, _, _)
CoverageLoopNoElse(font, todo, covered, missing) ==
    IF todo = {} THEN [covered |-> covered, missing |-> missing]
    ELSE LET cp == CHOOSE c \in todo : TRUE
         IN  IF cp \in DOMAIN font.cmap
             THEN IF font.cmap[cp] # Notdef(font) /\ font.cmap[cp] # ".notdef"
                  THEN CoverageLoopNoElse(font, todo \ {cp}, covered \cup {cp}, missing)
                  ELSE CoverageLoopNoElse(font, todo \ {cp}, covered, missing \cup {cp})
             ELSE CoverageLoopNoElse(font, todo \ {cp}, covered, missing)

\* One iteration of the loop over chars, lines 93-103.
RECURSIVE CoverageLoop(_, _, _, _)
CoverageLoop(font, todo, covered, missing) ==
    IF todo = {} THEN [covered |-> covered, missing |-> missing]
    ELSE LET cp == CHOOSE c \in todo : TRUE
         IN  IF cp \in DOMAIN font.cmap
             THEN IF font.cmap[cp] # Notdef(font) /\ font.cmap[cp] # ".notdef"
                  THEN CoverageLoop(font, todo \ {cp}, covered \cup {cp}, missing)
                  ELSE CoverageLoop(font, todo \ {cp}, covered, missing \cup {cp})
             ELSE CoverageLoop(font, todo \ {cp}, covered, missing \cup {cp})

check_glyph_coverage(font, cs) == CoverageLoop(font, cs, {}, {})

\* ---------------------------------------------------------------- scan_content

InRange(name, cp) == RANGES[name].start <= cp /\ cp <= RANGES[name].end

\* Lines 129-134 for one character: the ranges whose set receives it.
Receives(name, cp) ==
    /\ InRange(name, cp)
    /\ ~(RANGES[name].rare_only /\ cp \notin RARE_BASIC_CJK)

\* Lines 127-134: one file's text folded into `found`.
RECURSIVE ScanText(_, _)
ScanText(text, found) ==
    IF text = <<>> THEN found
    ELSE ScanText(Tail(text),
                  [name \in DOMAIN found |->
                      IF Receives(name, Head(text))
                      THEN found[name] \cup {Head(text)}
                      ELSE found[name]])

\* Lines 124-134: the loop over the files found by glob.
RECURSIVE ScanFiles(_, _)
ScanFiles(files, found) ==
    IF files = <<>> THEN found
    ELSE ScanFiles(Tail(files), ScanText(Head(files), found))

\* `files` is the sequence of the texts of the *.mdx / *.md files under the
\* content directory; with none the empty `found` is returned (lines 118-120).
scan_content(files) ==
    LET empty == [name \in DOMAIN RANGES |-> {}]
    IN  IF files = <<>> THEN empty ELSE ScanFiles(files, empty)

\* ------------------------------------------------------------ generate_subset

\* Variant of generate_subset: an existing output is removed and the function
\* returns, whether or not `cs` is empty.
generate_subset_remove_first(name, weight, font_file, cs, o, fontsPresent, engineOk) ==
    LET source == SourcePath(font_file)
        output == OutputName(name, weight)
    IN  IF ~SourceExists(source, fontsPresent)
        THEN [out |-> o, outcome |-> "no_source"]
        ELSE IF OutputExists(output, o)
        THEN [out |-> Remove(output, o), outcome |-> "removed"]
        ELSE IF cs = {}
        THEN [out |-> o, outcome |-> "none"]
        ELSE IF ~engineOk
        THEN [out |-> o, outcome |-> "raised"]
        ELSE [out |-> Save(output, source, cs, o), outcome |-> "written"]

\* Variant of generate_subset: with no characters it returns at once, the
\* stale output left in place.
generate_subset_keep_stale(name, weight, font_file, cs, o, fontsPresent, engineOk) ==
    LET source == SourcePath(font_file)
        output == OutputName(name, weight)
    IN  IF ~SourceExists(source, fontsPresent)
        THEN [out |-> o, outcome |-> "no_source"]
        ELSE IF cs = {}
        THEN [out |-> o, outcome |-> "none"]
        ELSE IF ~engineOk
        THEN [out |-> o, outcome |-> "raised"]
        ELSE [out |-> Save(output, source, cs, o), outcome |-> "written"]

\* The effect of generate_subset on the output directory `o`, and how it ended.
\* engineOk: whether the fontTools calls of lines 165-174 go through; when one
\* raises, nothing has been saved.
generate_subset(name, weight, font_file, cs, o, fontsPresent, engineOk) ==
    LET source == SourcePath(font_file)
        output == OutputName(name, weight)
    IN  IF ~SourceExists(source, fontsPresent)
        THEN [out |-> o, outcome |-> "no_source"]
        ELSE IF cs = {}
        THEN [out |-> IF OutputExists(output, o) THEN Remove(output, o) ELSE o,
              outcome |-> IF OutputExists(output, o) THEN "removed" ELSE "none"]
        ELSE IF ~engineOk
        THEN [out |-> o, outcome |-> "raised"]
        ELSE [out |-> Save(output, source, cs, o), outcome |-> "written"]

\* sorted(cfg["weights"].items()): the weights in increasing order.
RECURSIVE Sorted(_)
Sorted(S) ==
    IF S = {} THEN <<>>
    ELSE LET m == CHOOSE x \in S : \A y \in S : x <= y
         IN  <<m>> \o Sorted(S \ {m})

\* ------------------------------------------------------------------- inputs

\* Code points the content draws on: "A", U+4E00 (inside the CJKRare interval,
\* not on the whitelist), U+8FCC (on the whitelist), U+20000 and U+20001.
Corpora ==
    { <<>>,
      << <<65, 65>> >>,
      << <<65, 19968>> >>,
      << <<36812>> >>,
      << <<131072, 65>>, <<131072>> >>,
      << <<131072, 131073>> >>,
      << <<65, 36812>>, <<131073, 131072, 19968>> >>,
      << <<19968, 36812, 131073>> >> }

\* What the Regular font file may hold.
RegularFonts ==
    { [glyphOrder |-> <<".notdef", "ga", "gb", "gc">>,
       cmap |-> (36812 :> "gc") @@ (131072 :> "ga") @@ (131073 :> "gb")],
      [glyphOrder |-> <<".notdef", "ga">>,
       cmap |-> (131072 :> "ga") @@ (131073 :> ".notdef")],
      [glyphOrder |-> <<"nd0", "ga", "gc">>,
       cmap |-> (36812 :> "gc") @@ (131072 :> "nd0") @@ (131073 :> "ga")],
      [glyphOrder |-> <<>>, cmap |-> <<>>] }

ArgVectors ==
    { <<"subset-fonts.py", "content">>,
      <<"subset-fonts.py", "content", "public/fonts">> }

AllSources == {SourcePath(WeightFiles[w]) : w \in Weights}

SlotNames == {OutputName(name, w) : name \in DOMAIN RANGES, w \in Weights}

\* Two files of the output directory that no configured pair names: one left
\* by an earlier naming scheme, and the font shipped as is (lines 66-67).
RetiredName == <<"CJKExtB", "-", "400", ".woff2">>
UnrelatedName == <<"NyushuSerif", "-", "1.0022", ".woff2">>
OtherNames == {RetiredName, UnrelatedName}
FileNames == SlotNames \cup OtherNames

\* Characters of an earlier corpus, held by an artifact from before the run.
StaleChars(name) == IF name = "CJKExtB-Serif" THEN {173791} ELSE {22282}

OutputDirs ==
    { [p \in FileNames |->
          IF p \in OtherNames
          THEN IF p \in others
               THEN {Artifact(<<"upstream", "/", p[1]>>, {})}
               ELSE Absent
          ELSE IF p \in present
               THEN {Artifact(SourcePath(WeightFiles[CHOOSE w \in Weights :
                                 p[3] = WeightStr(w)]),
                              StaleChars(p[1]))}
               ELSE Absent]
      : present \in SUBSET SlotNames, others \in SUBSET OtherNames }

NoCoverage ==
    [name \in DOMAIN RANGES |-> [checked |-> FALSE, covered |-> {}, missing |-> {}]]
NoFound == [name \in DOMAIN RANGES |-> {}]
NoOps == [p \in FileNames |-> "none"]
NoCall == [fn |-> "main", name |-> "", weight |-> 0, chars |-> {},
           returned |-> FALSE, covered |-> {}, missing |-> {}, outcome |-> ""]

\* -------------------------------------------------------------------- state

VARIABLES
    argv,        \* sys.argv
    content,     \* the content directory: whether it exists, the texts of its files
    fonts,       \* the paths present in FONT_DIR
    regular,     \* what the Regular font file holds (cmap, glyph order)
    out,         \* the output directory: file name -> contents
    pc,          \* where main is
    run,         \* which run of the script this is
    found,       \* main's `found`
    ri,          \* position of the loop of line 203 in RangeNames
    chars,       \* main's `chars` for the current range
    wi,          \* position of the loop of line 239 in the sorted weights
    generated,   \* main's `generated`
    coverage,    \* per range: the (covered, missing) of line 214, once computed
    ops,         \* per output file: what this run did to it last
    outAtStart,  \* the output directory when this run began
    envAtStart,  \* the font directory and the Regular font when this run began
    prevOps,     \* `ops` of the previous run
    removed,     \* the source fonts removed since the previous run
    call         \* arguments and result of a function applied on its own

vars == <<argv, content, fonts, regular, out, pc, run, found, ri, chars, wi,
          generated, coverage, ops, outAtStart, envAtStart, prevOps, removed,
          call>>

env == <<argv, content, fonts, regular>>
locals == <<found, ri, chars, wi, generated, coverage>>
history == <<run, outAtStart, envAtStart, prevOps, removed>>

Init ==
    /\ argv \in ArgVectors
    /\ content \in [isdir : BOOLEAN, files : Corpora]
    /\ ~content.isdir => content.files = <<>>
    /\ fonts \in SUBSET AllSources
    /\ regular \in RegularFonts
    /\ out \in OutputDirs
    /\ pc = "start"
    /\ run = 1
    /\ found = NoFound
    /\ ri = 1
    /\ chars = {}
    /\ wi = 1
    /\ generated = 0
    /\ coverage = NoCoverage
    /\ ops = NoOps
    /\ outAtStart = out
    /\ envAtStart = <<fonts, regular>>
    /\ prevOps = NoOps
    /\ removed = {}
    /\ call = NoCall

\* --------------------------------------------------------------------- main

RangeName == RangeNames[ri]

\* cfg["weights"].get(400) and os.path.exists(regular_path), lines 210-213.
RegularPresent(name, fontsPresent) ==
    /\ 400 \in DOMAIN RANGES[name].weights
    /\ SourceExists(SourcePath(RANGES[name].weights[400]), fontsPresent)

\* Variant of SubsetChars: without the Regular font nothing counts as covered.
SubsetCharsCoveredOnly(name, scanned, fontsPresent, font) ==
    IF RegularPresent(name, fontsPresent)
    THEN check_glyph_coverage(font, scanned).covered
    ELSE {}

\* Lines 209-227: `chars` as it stands at line 229.
SubsetChars(name, scanned, fontsPresent, font) ==
    IF RegularPresent(name, fontsPresent)
    THEN check_glyph_coverage(font, scanned).covered
    ELSE scanned

\* Lines 232-235: every output of the range that exists is removed.
RECURSIVE CleanStale(_, _, _)
CleanStale(name, ws, o) ==
    IF ws = {} THEN o
    ELSE LET weight == CHOOSE w \in ws : TRUE
             stale == OutputName(name, weight)
         IN  CleanStale(name, ws \ {weight},
                        IF OutputExists(stale, o) THEN Remove(stale, o) ELSE o)

\* The files a step changed from existing to not existing are marked removed.
MarkRemoved(before, after) ==
    [p \in FileNames |->
        IF before[p] # Absent /\ after[p] = Absent THEN "removed" ELSE ops[p]]

\* Lines 181-183: wrong number of arguments.
MainUsage ==
    /\ pc = "start"
    /\ Len(argv) # 3
    /\ pc' = "exited"
    /\ UNCHANGED <<env, out, locals, ops, history, call>>

\* Lines 188-190: the content directory does not exist.
MainNoContentDir ==
    /\ pc = "start"
    /\ Len(argv) = 3
    /\ ~content.isdir
    /\ pc' = "exited"
    /\ UNCHANGED <<env, out, locals, ops, history, call>>

\* Lines 192-201: the output directory is made, the content scanned.
MainScan ==
    /\ pc = "start"
    /\ Len(argv) = 3
    /\ content.isdir
    /\ found' = scan_content(content.files)
    /\ ri' = 1
    /\ pc' = "range"
    /\ UNCHANGED <<env, out, chars, wi, generated, coverage, ops, history, call>>

\* Lines 204-207: nothing of this range was found.
RangeSkip ==
    /\ pc = "range"
    /\ ri <= Len(RangeNames)
    /\ found[RangeName] = {}
    /\ ri' = ri + 1
    /\ UNCHANGED <<env, out, pc, found, chars, wi, generated, coverage, ops,
                   history, call>>

\* Line 214, when loading the Regular font raises: the exception leaves main.
RangeCoverageRaise ==
    /\ pc = "range"
    /\ ri <= Len(RangeNames)
    /\ found[RangeName] # {}
    /\ RegularPresent(RangeName, fonts)
    /\ pc' = "crashed"
    /\ UNCHANGED <<env, out, locals, ops, history, call>>

\* The coverage of line 214, recorded when it was computed.
CoverageAt214 ==
    IF RegularPresent(RangeName, fonts)
    THEN [coverage EXCEPT ![RangeName] =
            [checked |-> TRUE,
             covered |-> check_glyph_coverage(regular, found[RangeName]).covered,
             missing |-> check_glyph_coverage(regular, found[RangeName]).missing]]
    ELSE coverage

\* Lines 209-236: no character is left after the coverage check.
RangeCleanup ==
    /\ pc = "range"
    /\ ri <= Len(RangeNames)
    /\ found[RangeName] # {}
    /\ SubsetChars(RangeName, found[RangeName], fonts, regular) = {}
    /\ coverage' = CoverageAt214
    /\ chars' = {}
    /\ out' = CleanStale(RangeName, DOMAIN RANGES[RangeName].weights, out)
    /\ ops' = MarkRemoved(out, out')
    /\ ri' = ri + 1
    /\ UNCHANGED <<env, pc, found, wi, generated, history, call>>

\* Lines 209-238: there are characters to subset; the loop over weights begins.
RangeSelect ==
    /\ pc = "range"
    /\ ri <= Len(RangeNames)
    /\ found[RangeName] # {}
    /\ SubsetChars(RangeName, found[RangeName], fonts, regular) # {}
    /\ coverage' = CoverageAt214
    /\ chars' = SubsetChars(RangeName, found[RangeName], fonts, regular)
    /\ generated' = 0
    /\ wi' = 1
    /\ pc' = "weights"
    /\ UNCHANGED <<env, out, found, ri, ops, history, call>>

SortedWeights == Sorted(DOMAIN RANGES[RangeName].weights)
Weight == SortedWeights[wi]
FontFile == RANGES[RangeName].weights[Weight]

\* Lines 239-243: the source exists and generate_subset returns.
WeightGenerate ==
    /\ pc = "weights"
    /\ wi <= Len(SortedWeights)
    /\ SourceExists(SourcePath(FontFile), fonts)
    /\ LET r == generate_subset(RangeName, Weight, FontFile, chars, out, fonts, TRUE)
       IN  /\ out' = r.out
           /\ ops' = [ops EXCEPT ![OutputName(RangeName, Weight)] =
                        IF r.outcome \in {"written", "removed"}
                        THEN r.outcome ELSE @]
    /\ generated' = generated + 1
    /\ wi' = wi + 1
    /\ UNCHANGED <<env, pc, found, ri, chars, coverage, history, call>>

\* Lines 239-242, when a fontTools call inside generate_subset raises: nothing
\* catches the exception and it leaves main.
WeightRaise ==
    /\ pc = "weights"
    /\ wi <= Len(SortedWeights)
    /\ SourceExists(SourcePath(FontFile), fonts)
    /\ generate_subset(RangeName, Weight, FontFile, chars, out, fonts, FALSE).outcome
          = "raised"
    /\ ops' = [ops EXCEPT ![OutputName(RangeName, Weight)] = "raised"]
    /\ pc' = "crashed"
    /\ UNCHANGED <<env, out, locals, history, call>>

\* Variant of WeightSkip: the output of a weight without a source is removed.
WeightSkipRemoves ==
    /\ pc = "weights"
    /\ wi <= Len(SortedWeights)
    /\ ~SourceExists(SourcePath(FontFile), fonts)
    /\ out' = Remove(OutputName(RangeName, Weight), out)
    /\ ops' = MarkRemoved(out, out')
    /\ wi' = wi + 1
    /\ UNCHANGED <<env, pc, found, ri, chars, generated, coverage, history, call>>

\* Lines 239-241: the source of this weight does not exist.
WeightSkip ==
    /\ pc = "weights"
    /\ wi <= Len(SortedWeights)
    /\ ~SourceExists(SourcePath(FontFile), fonts)
    /\ wi' = wi + 1
    /\ UNCHANGED <<env, out, pc, found, ri, chars, generated, coverage, ops,
                   history, call>>

\* Lines 245-248: the loop over weights is over.
RangeEnd ==
    /\ pc = "weights"
    /\ wi > Len(SortedWeights)
    /\ ri' = ri + 1
    /\ pc' = "range"
    /\ UNCHANGED <<env, out, found, chars, wi, generated, coverage, ops,
                   history, call>>

\* Variant of MainDone: before "Done." every file of the output directory that
\* no configured pair names is removed.
MainDoneSweep ==
    /\ pc = "range"
    /\ ri > Len(RangeNames)
    /\ out' = [p \in FileNames |-> IF p \in SlotNames THEN out[p] ELSE Absent]
    /\ pc' = "done"
    /\ UNCHANGED <<env, locals, ops, history, call>>

\* Lines 250-251: "Done."
MainDone ==
    /\ pc = "range"
    /\ ri > Len(RangeNames)
    /\ pc' = "done"
    /\ UNCHANGED <<env, out, locals, ops, history, call>>

\* The exit status of the process once main is over.
ExitStatus == IF pc = "done" THEN 0 ELSE 1

\* ------------------------------------------------------------ between runs

StartRun ==
    /\ pc = "done"
    /\ run < MaxRuns
    /\ run' = run + 1
    /\ pc' = "start"
    /\ found' = NoFound
    /\ ri' = 1
    /\ chars' = {}
    /\ wi' = 1
    /\ generated' = 0
    /\ coverage' = NoCoverage
    /\ ops' = NoOps
    /\ outAtStart' = out
    /\ prevOps' = ops
    /\ UNCHANGED <<argv, content, regular, out, call>>

\* The script is run again, nothing having changed.
Rerun ==
    /\ StartRun
    /\ removed' = {}
    /\ UNCHANGED fonts
    /\ envAtStart' = <<fonts, regular>>

\* The script is run again after one source font was removed from FONT_DIR.
RerunFontRemoved ==
    /\ StartRun
    /\ \E path \in fonts :
          /\ fonts' = fonts \ {path}
          /\ removed' = {path}
          /\ envAtStart' = <<fonts \ {path}, regular>>

Next ==
    \/ MainUsage
    \/ MainNoContentDir
    \/ MainScan
    \/ RangeSkip
    \/ RangeCoverageRaise
    \/ RangeCleanup
    \/ RangeSelect
    \/ WeightGenerate
    \/ WeightRaise
    \/ WeightSkip
    \/ RangeEnd
    \/ MainDone
    \/ Rerun
    \/ RerunFontRemoved

Spec == Init /\ [][Next]_vars

\* ------------------------------------- check_glyph_coverage applied on its own

CoverageGlyphs == {".notdef", "ga", "gb"}
CoverageKeys == {36812, 131072}
CoverageFonts ==
    [glyphOrder : {<<>>, <<".notdef", "ga", "gb">>, <<"ga", ".notdef", "gb">>,
                   <<"ga", "gb">>},
     cmap : UNION {[D -> CoverageGlyphs] : D \in SUBSET CoverageKeys}]
CoverageChars == SUBSET {65, 36812, 131072}

InitCoverage ==
    /\ regular \in CoverageFonts
    /\ call \in {[NoCall EXCEPT !.fn = "check_glyph_coverage", !.chars = cs]
                    : cs \in CoverageChars}
    /\ argv = <<>>
    /\ content = [isdir |-> FALSE, files |-> <<>>]
    /\ fonts = AllSources
    /\ out = [p \in FileNames |-> Absent]
    /\ pc = "call"
    /\ run = 1
    /\ found = NoFound
    /\ ri = 1
    /\ chars = {}
    /\ wi = 1
    /\ generated = 0
    /\ coverage = NoCoverage
    /\ ops = NoOps
    /\ outAtStart = out
    /\ envAtStart = <<fonts, regular>>
    /\ prevOps = NoOps
    /\ removed = {}

\* covered, missing = check_glyph_coverage(font_path, chars)
CoverageCall ==
    /\ pc = "call"
    /\ call.fn = "check_glyph_coverage"
    /\ LET r == check_glyph_coverage(regular, call.chars)
       IN  call' = [call EXCEPT !.returned = TRUE,
                                !.covered = r.covered,
                                !.missing = r.missing]
    /\ pc' = "returned"
    /\ UNCHANGED <<env, out, locals, ops, history>>

SpecCoverage == InitCoverage /\ [][CoverageCall]_vars

\* ------------------------------------------ generate_subset applied on its own

GenerateChars == {{}, {36812}, {131072, 131073}}

InitGenerate ==
    /\ fonts \in SUBSET AllSources
    /\ out \in OutputDirs
    /\ call \in {[NoCall EXCEPT !.fn = "generate_subset", !.name = name,
                                !.weight = w, !.chars = cs]
                    : name \in DOMAIN RANGES, w \in Weights, cs \in GenerateChars}
    /\ regular = [glyphOrder |-> <<>>, cmap |-> <<>>]
    /\ argv = <<>>
    /\ content = [isdir |-> FALSE, files |-> <<>>]
    /\ pc = "call"
    /\ run = 1
    /\ found = NoFound
    /\ ri = 1
    /\ chars = {}
    /\ wi = 1
    /\ generated = 0
    /\ coverage = NoCoverage
    /\ ops = NoOps
    /\ outAtStart = out
    /\ envAtStart = <<fonts, regular>>
    /\ prevOps = NoOps
    /\ removed = {}

\* generate_subset(name, weight, font_file, chars, output_dir), the fontTools
\* calls going through or one of them raising.
GenerateCall ==
    /\ pc = "call"
    /\ call.fn = "generate_subset"
    /\ \E engineOk \in BOOLEAN :
          LET r == generate_subset(call.name, call.weight,
                                   RANGES[call.name].weights[call.weight],
                                   call.chars, out, fonts, engineOk)
          IN  /\ out' = r.out
              /\ call' = [call EXCEPT !.returned = TRUE, !.outcome = r.outcome]
    /\ pc' = "returned"
    /\ UNCHANGED <<env, locals, ops, history>>

SpecGenerate == InitGenerate /\ [][GenerateCall]_vars

\* -------------------------------------------------------------- properties

RangeIndex(name) == CHOOSE i \in 1..Len(RangeNames) : RangeNames[i] = name

\* main is past the body of the loop of line 203 for `name`, up to line 238.
Processed(name) ==
    \/ pc = "done"
    \/ pc \in {"range", "weights"} /\ RangeIndex(name) < ri
    \/ pc = "weights" /\ RangeIndex(name) = ri

\* The character set main computed for `name` in this run is empty.
ComputedEmpty(name) ==
    \/ found[name] = {}
    \/ coverage[name].checked /\ coverage[name].covered = {}

Slots == {<<name, w>> : name \in DOMAIN RANGES, w \in Weights}
Source(name, w) == SourcePath(RANGES[name].weights[w])

\* C1: an artifact that exists before a run whose character set for the
\* family is empty (nothing scanned, or nothing covered) is absent once the
\* run has completed.
C1_EmptySetArtifactAbsent ==
    pc = "done" =>
        \A s \in Slots :
            (outAtStart[OutputName(s[1], s[2])] # Absent /\ ComputedEmpty(s[1]))
                => out[OutputName(s[1], s[2])] = Absent

\* C2: after a run that completes, the output directory holds no file named
\* after a retired scheme.
C2_RetiredSwept == pc = "done" => out[RetiredName] = Absent

\* Whether some output's generation raised in this run.
SomeRaised == \E p \in FileNames : ops[p] = "raised"

\* The pairs main generates for: the source exists and characters are left.
Eligible(name, w) ==
    /\ SourceExists(Source(name, w), fonts)
    /\ found[name] # {}
    /\ SubsetChars(name, found[name], fonts, regular) # {}

\* C3: a failure to produce one pair's artifact does not abort the run, and
\* once the run is over every other pair that can be generated was written.
C3_FailureContained ==
    SomeRaised =>
        /\ pc # "crashed"
        /\ pc = "done" =>
              \A s \in Slots :
                  (Eligible(s[1], s[2]) /\ ops[OutputName(s[1], s[2])] # "raised")
                      => ops[OutputName(s[1], s[2])] = "written"

\* The weight-400 source of a family with scanned characters does not exist.
ReferenceMissing(name) ==
    /\ found[name] # {}
    /\ ~RegularPresent(name, fonts)

\* C4 as stated: with the reference font missing the run writes no artifact
\* and does not end with exit status 0.
C4_MissingReferenceFatal ==
    (\E name \in DOMAIN RANGES : ReferenceMissing(name)) =>
        /\ \A p \in FileNames : ops[p] # "written"
        /\ pc # "done"

\* C4 as amended: with the reference font of a family missing the run neither
\* exits nor touches the family's weight-400 artifact; the coverage check is
\* left out, and a run that reaches "Done." (exit status 0) has written, for
\* every weight whose source exists, the subset of all scanned characters.
C4_MissingReferenceSkipped ==
    \A name \in DOMAIN RANGES :
        ReferenceMissing(name) =>
            /\ pc # "exited"
            /\ ops[OutputName(name, 400)] = "none"
            /\ out[OutputName(name, 400)] = outAtStart[OutputName(name, 400)]
            /\ ~coverage[name].checked
            /\ pc = "done" =>
                  /\ ExitStatus = 0
                  /\ \A w \in Weights :
                        SourceExists(Source(name, w), fonts) =>
                            /\ ops[OutputName(name, w)] = "written"
                            /\ out[OutputName(name, w)]
                                  = {Artifact(Source(name, w), found[name])}

C4_Witness ==
    /\ pc = "done"
    /\ \E s \in Slots :
          /\ ReferenceMissing(s[1])
          /\ ops[OutputName(s[1], s[2])] = "written"
          /\ outAtStart[OutputName(s[1], 400)] # Absent

\* The characters of the content, whatever file they are in.
RECURSIVE Elements(_)
Elements(seq) == IF seq = <<>> THEN {} ELSE {Head(seq)} \cup Elements(Tail(seq))
RECURSIVE CorpusChars(_)
CorpusChars(files) ==
    IF files = <<>> THEN {} ELSE Elements(Head(files)) \cup CorpusChars(Tail(files))

\* The Regular font has no entry for cp, or maps it to the first glyph.
Unrendered(cp) ==
    \/ cp \notin DOMAIN regular.cmap
    \/ regular.glyphOrder # <<>> /\ regular.cmap[cp] = regular.glyphOrder[1]

\* cp is in `missing` and in no artifact this run wrote for `name`.
Excluded(name, cp) ==
    /\ cp \in coverage[name].missing
    /\ \A w \in Weights :
          ops[OutputName(name, w)] = "written" =>
              \A a \in out[OutputName(name, w)] : cp \notin a.chars

\* C5 as stated: a character of the corpus inside the family's interval that
\* the reference font does not render is in `missing` and in no artifact
\* written for the family.
C5_UnrenderedInIntervalExcluded ==
    \A name \in DOMAIN RANGES :
        \A cp \in CorpusChars(content.files) :
            (/\ Processed(name)
             /\ RegularPresent(name, fonts)
             /\ InRange(name, cp)
             /\ Unrendered(cp)) => Excluded(name, cp)

\* C5 as amended: the same of a character the scan collects for the family:
\* inside the interval and, when the family is whitelist-only, on the whitelist.
C5_UnrenderedCollectedExcluded ==
    \A name \in DOMAIN RANGES :
        \A cp \in CorpusChars(content.files) :
            (/\ Processed(name)
             /\ RegularPresent(name, fonts)
             /\ Receives(name, cp)
             /\ Unrendered(cp)) => Excluded(name, cp)

C5_Witness ==
    /\ pc = "done"
    /\ \E name \in DOMAIN RANGES :
          \E cp \in CorpusChars(content.files) :
              /\ RegularPresent(name, fonts)
              /\ Receives(name, cp)
              /\ cp \in DOMAIN regular.cmap
              /\ Unrendered(cp)
              /\ regular.cmap[cp] # ".notdef"
              /\ cp \in coverage[name].missing
              /\ \E w \in Weights : ops[OutputName(name, w)] = "written"

\* A weight of a family whose artifact the previous run wrote and whose source
\* font was removed before this run.
SourceRemoved(name, w) ==
    /\ run > 1
    /\ prevOps[OutputName(name, w)] = "written"
    /\ Source(name, w) \in removed

\* C6: that weight's artifact is left exactly as it was, the run does not
\* exit on a fatal error, and a run that reaches "Done." has written the
\* artifact of every other weight of the family whose source exists.
C6_RemovedSourceArtifactKept ==
    \A s \in Slots :
        SourceRemoved(s[1], s[2]) =>
            /\ out[OutputName(s[1], s[2])] = outAtStart[OutputName(s[1], s[2])]
            /\ ops[OutputName(s[1], s[2])] = "none"
            /\ pc # "exited"
            /\ pc = "done" =>
                  \A w \in Weights \ {s[2]} :
                      SourceExists(Source(s[1], w), fonts) =>
                          ops[OutputName(s[1], w)] = "written"

C6_Witness ==
    /\ pc = "done"
    /\ \E s \in Slots :
          /\ SourceRemoved(s[1], s[2])
          /\ out[OutputName(s[1], s[2])] # Absent
          /\ \E w \in Weights \ {s[2]} : ops[OutputName(s[1], w)] = "written"

\* C7: check_glyph_coverage splits the characters it is given: covered and
\* missing together are the input, and share nothing.
C7_CoveragePartition ==
    (call.fn = "check_glyph_coverage" /\ call.returned) =>
        /\ call.covered \cup call.missing = call.chars
        /\ call.covered \cap call.missing = {}

C7_Witness ==
    /\ call.fn = "check_glyph_coverage"
    /\ call.returned
    /\ regular.glyphOrder = <<>>
    /\ call.covered # {}
    /\ \E cp \in call.missing : cp \notin DOMAIN regular.cmap

\* C8: a second run on the same content and the same source fonts leaves the
\* output directory as the first run left it.
C8_SecondRunSameArtifacts ==
    (run > 1 /\ removed = {} /\ pc = "done") => out = outAtStart

C8_Witness ==
    /\ run > 1
    /\ removed = {}
    /\ pc = "done"
    /\ \E p \in SlotNames : ops[p] = "written" /\ prevOps[p] = "written"
    /\ \E p \in SlotNames : ops[p] = "none" /\ prevOps[p] = "removed"
    /\ \E p \in SlotNames : out[p] # Absent /\ ops[p] = "none" /\ prevOps[p] = "none"

\* The path generate_subset was called for.
CallOutput == OutputName(call.name, call.weight)
CallSource == Source(call.name, call.weight)

\* C9 as stated: after generate_subset was called with no characters, nothing
\* is at the target path.
C9_EmptyCharsTargetAbsent ==
    (call.fn = "generate_subset" /\ call.returned /\ call.chars = {}) =>
        out[CallOutput] = Absent

\* C9 as amended: so it is when the source font exists; without the source
\* font the call leaves the target path as it was.  Neither way is an
\* artifact written.
C9_EmptyCharsTargetAbsentIfSource ==
    (call.fn = "generate_subset" /\ call.returned /\ call.chars = {}) =>
        /\ call.outcome # "written"
        /\ SourceExists(CallSource, fonts) => out[CallOutput] = Absent
        /\ ~SourceExists(CallSource, fonts) => out = outAtStart

C9_Witness ==
    /\ call.fn = "generate_subset"
    /\ call.returned
    /\ call.chars = {}
    /\ SourceExists(CallSource, fonts)
    /\ outAtStart[CallOutput] # Absent
    /\ out[CallOutput] = Absent

\* C10: a run changes no file other than the outputs named after a configured
\* pair: every other file of the output directory and every source font is
\* as it was when the run began.
C10_OnlyConfiguredOutputsChange ==
    /\ \A p \in FileNames \ SlotNames : out[p] = outAtStart[p] /\ ops[p] = "none"
    /\ envAtStart = <<fonts, regular>>

C10_Witness ==
    /\ pc = "done"
    /\ \E p \in SlotNames : ops[p] = "written"
    /\ \E p \in SlotNames : ops[p] = "removed"
    /\ \A p \in OtherNames : out[p] # Absent

====
